---- MODULE Spec2Model ----
(***************************************************************************)
(* Model of the AI Mirror core:                                            *)
(*   - utils/timer.py        PomodoroTimer (lock, flags, countdown thread) *)
(*   - scripts/ai_mirror.py  AIMirror.run session loop                     *)
(* SpecTimer drives the timer from concurrent caller threads; SpecSession  *)
(* drives the session loop from the utterances, clock and collaborators.   *)
(***************************************************************************)
EXTENDS Integers, Sequences, FiniteSets, TLC

(* ---------------------------- bounds ----------------------------------- *)
\* caller threads that invoke the timer's public methods concurrently
NCallers == 2
\* countdown threads created over the life of one timer
MaxRuns == 2
\* start(): work_min*60 ranges over 0..MaxWorkSecs, break_min*60 over
\* 0..MaxBreakSecs, cycles over 1..MaxCycles
MaxWorkSecs == 2
MaxBreakSecs == 1
MaxCycles == 2

Callers == 1..NCallers
ThreadIds == 1..MaxRuns

VARIABLES
    lock,         \* self._lock: 0 when free, else the caller holding it
    cpc,          \* position of each caller inside start()
    start_ret,    \* value returned by the most recently returned start()
    t,            \* self._t: 0 for None, else the thread object
    threads,      \* the countdown threads: position and locals of _run/_countdown
    t_stop,       \* self._stop
    t_paused,     \* self._paused
    t_remaining,  \* self._remaining
    t_phase,      \* self._phase
    phaseLog,     \* phases passed to on_phase since the last thread was created
    tickLog,      \* (remaining, phase) pairs passed to on_tick in the current phase
    doneCount,    \* calls of on_done since the last thread was created
    stopCall,     \* stop() calls since start() last cleared the flag: "none",
                  \* "counting" (one found a countdown with time remaining), "other"
    earlyCalls,   \* which of stop() and pause() were called on the timer
                  \* before any thread was created and before a start()
                  \* cleared their flag; emptied when a thread takes a step
    lastArgs,     \* arguments of the last start() that created a thread
    lastOp,       \* the last step: "pause", "pause_resume" (resume() right after
                  \* pause()), "resume", or "other"
    prSnap        \* remaining, phase and notifications as they were at that pause()

timerVars == <<lock, cpc, start_ret, t, threads, t_stop, t_paused,
               t_remaining, t_phase, phaseLog, tickLog, doneCount, stopCall,
               earlyCalls, lastArgs, lastOp, prSnap>>

VARIABLES
    s_pc,            \* position of AIMirror.run: "sense", "timer", "prompt",
                     \* "listen", "dispatch", "cleanup", "done", "crashed"
    iter,            \* loop iterations completed
    now,             \* time.time()
    cap,             \* self.cap: "none", "open" or "released"
    ai,              \* self.ai is not None
    tts,             \* utils.sound.say was imported (_say is not None)
    muted,           \* self.muted
    moods,           \* self.moods
    ctx,             \* self.ctx
    timer_deadline,  \* local timer_deadline of run; 0 stands for None
    paused,          \* local paused of run
    mood,            \* local mood of run; "" stands for None
    user,            \* local user of run; "" stands for None and ""
    out,             \* what _speak did in the current loop iteration: its calls,
                     \* the console lines, the say() calls, the _say() calls
    heardAt,         \* number of _speak calls of the iteration when _listen returned
    muteCmd,         \* the last mute/unmute utterance handled was a mute
    timerSet,        \* the last "start timer" that set the timer: the clock
                     \* reading, the utterance, and the "Timer done."
                     \* announcements made since
    appended,        \* every entry ever appended to self.ctx, in order
    frozen           \* the seconds that remained when "pause timer" last paused
                     \* the timer, and the clock reading at the "resume timer"
                     \* that resumed it since (0 for none)

sessionVars == <<s_pc, iter, now, cap, ai, tts, muted, moods, ctx,
                 timer_deadline, paused, mood, user, out, heardAt, muteCmd,
                 timerSet, frozen, appended>>

\* utils/phrases.py: the module memory and the calls of get_phrase
VARIABLES
    RECENT,          \* _RECENT: the phrases returned lately, oldest first
    ph_calls,        \* calls of get_phrase made so far
    ph_last,         \* the last call: its context, the line assembled first,
                     \* whether it was regenerated, the line returned
    returned         \* every line get_phrase has returned, in call order

phraseVars == <<RECENT, ph_calls, ph_last, returned>>

vars == <<timerVars, sessionVars, phraseVars>>

(* ------------------------- utils/timer.py ------------------------------ *)

NoArgs == [work_s |-> 0, break_s |-> 0, cycles |-> 0]

\* start(work_min, break_min, cycles): the only use of the arguments is the
\* creation of the thread, which is given work_min*60, break_min*60 and
\* cycles; the inputs are enumerated by these products, in seconds.
StartArgs ==
    [work_s : 0..MaxWorkSecs, break_s : 0..MaxBreakSecs, cycles : 1..MaxCycles]

NewThread ==
    [pc |-> "new", work_s |-> 0, break_s |-> 0, cycles |-> 0, c |-> 0,
     seconds |-> 0, phase |-> "idle"]

DeadThread ==
    [pc |-> "dead", work_s |-> 0, break_s |-> 0, cycles |-> 0, c |-> 0,
     seconds |-> 0, phase |-> "idle"]

\* Thread.is_alive()
IsAlive(i) == threads[i].pc \notin {"new", "dead"}

\* def is_running(self): return self._t is not None and self._t.is_alive()
is_running == t # 0 /\ IsAlive(t)

\* def status(self)
status ==
    [phase |-> t_phase, remaining |-> t_remaining, running |-> is_running,
     paused |-> t_paused]

Notifications == <<phaseLog, tickLog, doneCount>>

\* every step other than pause() and resume() ends the "resume() right after
\* pause()" window
PrReset == lastOp' = "other" /\ prSnap' = <<>> /\ UNCHANGED <<sessionVars, phraseVars>>

\* start() entered without waiting for the lock
StartAcquire_NoLock(k) ==
    /\ cpc[k] = "idle"
    /\ lock' = k
    /\ cpc' = [cpc EXCEPT ![k] = "check"]
    /\ PrReset
    /\ UNCHANGED <<start_ret, t, threads, t_stop, t_paused, t_remaining,
                   t_phase, phaseLog, tickLog, doneCount, stopCall, earlyCalls,
                   lastArgs>>

\* start(): "with self._lock:"
StartAcquire(k) ==
    /\ cpc[k] = "idle"
    /\ lock = 0
    /\ lock' = k
    /\ cpc' = [cpc EXCEPT ![k] = "check"]
    /\ PrReset
    /\ UNCHANGED <<start_ret, t, threads, t_stop, t_paused, t_remaining,
                   t_phase, phaseLog, tickLog, doneCount, stopCall, earlyCalls,
                   lastArgs>>

\* start() with the two flags cleared ahead of the running check
StartCheck_ClearsFirst(k) ==
    /\ cpc[k] = "check"
    /\ IF is_running
       THEN /\ cpc' = [cpc EXCEPT ![k] = "idle"]
            /\ lock' = 0
            /\ start_ret' = "False"
            /\ t_stop' = FALSE
            /\ t_paused' = FALSE
       ELSE /\ cpc' = [cpc EXCEPT ![k] = "clear_stop"]
            /\ UNCHANGED <<lock, start_ret, t_stop, t_paused>>
    /\ PrReset
    /\ UNCHANGED <<t, threads, t_remaining, t_phase,
                   phaseLog, tickLog, doneCount, stopCall, earlyCalls,
                   lastArgs>>

\* start(): "if self.is_running(): return False"
StartCheck(k) ==
    /\ cpc[k] = "check"
    /\ IF is_running
       THEN /\ cpc' = [cpc EXCEPT ![k] = "idle"]
            /\ lock' = 0
            /\ start_ret' = "False"
       ELSE /\ cpc' = [cpc EXCEPT ![k] = "clear_stop"]
            /\ UNCHANGED <<lock, start_ret>>
    /\ PrReset
    /\ UNCHANGED <<t, threads, t_stop, t_paused, t_remaining, t_phase,
                   phaseLog, tickLog, doneCount, stopCall, earlyCalls,
                   lastArgs>>

\* start(): "self._stop = False"
StartClearStop(k) ==
    /\ cpc[k] = "clear_stop"
    /\ t_stop' = FALSE
    /\ stopCall' = "none"
    /\ cpc' = [cpc EXCEPT ![k] = "clear_paused"]
    /\ PrReset
    /\ UNCHANGED <<lock, start_ret, t, threads, t_paused, t_remaining,
                   t_phase, phaseLog, tickLog, doneCount, earlyCalls, lastArgs>>

\* start() without "self._paused = False"
StartClearPaused_KeepsFlag(k) ==
    /\ cpc[k] = "clear_paused"
    /\ t_paused' = t_paused
    /\ cpc' = [cpc EXCEPT ![k] = "spawn"]
    /\ PrReset
    /\ UNCHANGED <<lock, start_ret, t, threads, t_stop, t_remaining,
                   t_phase, phaseLog, tickLog, doneCount, stopCall, earlyCalls,
                   lastArgs>>

\* start(): "self._paused = False"
StartClearPaused(k) ==
    /\ cpc[k] = "clear_paused"
    /\ t_paused' = FALSE
    /\ cpc' = [cpc EXCEPT ![k] = "spawn"]
    /\ PrReset
    /\ UNCHANGED <<lock, start_ret, t, threads, t_stop, t_remaining,
                   t_phase, phaseLog, tickLog, doneCount, stopCall, earlyCalls,
                   lastArgs>>

\* the thread objects not yet created
FreshIds == {i \in ThreadIds : threads[i].pc = "new"}

\* start(): "self._t = threading.Thread(...); self._t.start(); return True"
StartSpawn(k, a) ==
    /\ cpc[k] = "spawn"
    /\ FreshIds # {}
    /\ LET i == CHOOSE j \in FreshIds : \A m \in FreshIds : j <= m IN
       /\ t' = i
       /\ threads' = [threads EXCEPT ![i] =
              [pc |-> "run_for", work_s |-> a.work_s,
               break_s |-> a.break_s, cycles |-> a.cycles,
               c |-> 0, seconds |-> 0, phase |-> "idle"]]
    /\ cpc' = [cpc EXCEPT ![k] = "idle"]
    /\ lock' = 0
    /\ start_ret' = "True"
    /\ phaseLog' = <<>>
    /\ tickLog' = <<>>
    /\ doneCount' = 0
    /\ lastArgs' = a
    /\ PrReset
    /\ UNCHANGED <<t_stop, t_paused, t_remaining, t_phase, stopCall, earlyCalls>>

\* the record of a call of op ("stop" or "pause"): cleared is the set of
\* positions of start() at which the flag of op has been cleared and the
\* thread is not yet created
EarlyCall(op, cleared) ==
    IF t # 0 \/ \E k \in Callers : cpc[k] \in cleared
    THEN earlyCalls
    ELSE earlyCalls \cup {op}

\* pause() written as a toggle of the flag
pause_Toggle(k) ==
    /\ cpc[k] = "idle"
    /\ t_paused' = ~t_paused
    /\ earlyCalls' = EarlyCall("pause", {"spawn"})
    /\ lastOp' = "pause"
    /\ prSnap' = <<t_remaining, t_phase, Notifications>>
    /\ UNCHANGED <<lock, cpc, start_ret, t, threads, t_stop,
                   t_remaining, t_phase, phaseLog, tickLog, doneCount,
                   stopCall, lastArgs>>
    /\ UNCHANGED <<sessionVars, phraseVars>>

\* def pause(self): self._paused = True
pause(k) ==
    /\ cpc[k] = "idle"
    /\ t_paused' = TRUE
    /\ earlyCalls' = EarlyCall("pause", {"spawn"})
    /\ lastOp' = "pause"
    /\ prSnap' = <<t_remaining, t_phase, Notifications>>
    /\ UNCHANGED <<lock, cpc, start_ret, t, threads, t_stop,
                   t_remaining, t_phase, phaseLog, tickLog, doneCount,
                   stopCall, lastArgs>>
    /\ UNCHANGED <<sessionVars, phraseVars>>

\* def resume(self): self._paused = False
resume(k) ==
    /\ cpc[k] = "idle"
    /\ t_paused' = FALSE
    /\ lastOp' = IF lastOp = "pause" THEN "pause_resume" ELSE "resume"
    /\ prSnap' = IF lastOp = "pause" THEN prSnap ELSE <<>>
    /\ UNCHANGED <<lock, cpc, start_ret, t, threads, t_stop,
                   t_remaining, t_phase, phaseLog, tickLog, doneCount,
                   stopCall, earlyCalls, lastArgs>>
    /\ UNCHANGED <<sessionVars, phraseVars>>

\* def stop(self): self._stop = True
stop(k) ==
    /\ cpc[k] = "idle"
    /\ t_stop' = TRUE
    /\ stopCall' = IF status.running /\ status.phase \in {"work", "break"}
                      /\ status.remaining > 0
                   THEN "counting"
                   ELSE IF stopCall = "counting" THEN "counting" ELSE "other"
    /\ earlyCalls' = EarlyCall("stop", {"clear_paused", "spawn"})
    /\ PrReset
    /\ UNCHANGED <<lock, cpc, start_ret, t, threads, t_paused,
                   t_remaining, t_phase, phaseLog, tickLog, doneCount,
                   lastArgs>>

(* ---- the countdown thread: _run and _countdown, one step per line ----- *)

ThreadStep(i, rec) ==
    /\ threads' = [threads EXCEPT ![i] = rec]
    /\ earlyCalls' = {}
    /\ PrReset
    /\ UNCHANGED <<lock, cpc, start_ret, t, stopCall, lastArgs>>

\* _run: "for c in range(cycles):" then "self._countdown(work_s, 'work')"
RunFor(i) ==
    /\ threads[i].pc = "run_for"
    /\ IF threads[i].c < threads[i].cycles
       THEN ThreadStep(i, [threads[i] EXCEPT !.pc = "cd_phase",
                               !.seconds = threads[i].work_s, !.phase = "work"])
       ELSE ThreadStep(i, [threads[i] EXCEPT !.pc = "on_done"])
    /\ UNCHANGED <<t_stop, t_paused, t_remaining, t_phase, phaseLog, tickLog,
                   doneCount>>

\* _countdown: "self._phase = phase"
CdPhase(i) ==
    /\ threads[i].pc = "cd_phase"
    /\ t_phase' = threads[i].phase
    /\ ThreadStep(i, [threads[i] EXCEPT !.pc = "cd_notify"])
    /\ UNCHANGED <<t_stop, t_paused, t_remaining, phaseLog, tickLog, doneCount>>

\* _countdown: "if self._on_phase: self._on_phase(phase)"
CdNotify(i) ==
    /\ threads[i].pc = "cd_notify"
    /\ phaseLog' = Append(phaseLog, threads[i].phase)
    /\ tickLog' = <<>>
    /\ ThreadStep(i, [threads[i] EXCEPT !.pc = "cd_setrem"])
    /\ UNCHANGED <<t_stop, t_paused, t_remaining, t_phase, doneCount>>

\* _countdown: "self._remaining = seconds"
CdSetRem(i) ==
    /\ threads[i].pc = "cd_setrem"
    /\ t_remaining' = threads[i].seconds
    /\ ThreadStep(i, [threads[i] EXCEPT !.pc = "cd_while"])
    /\ UNCHANGED <<t_stop, t_paused, t_phase, phaseLog, tickLog, doneCount>>

\* _run with the break taken after the last work phase as well
CdWhile_BreakAfterLast(i) ==
    /\ threads[i].pc = "cd_while"
    /\ LET th == threads[i] IN
       IF t_remaining > 0
       THEN ThreadStep(i, [th EXCEPT !.pc = "cd_stop"])
       ELSE IF th.phase = "work" /\ th.c < th.cycles
       THEN ThreadStep(i, [th EXCEPT !.pc = "cd_phase",
                               !.seconds = th.break_s, !.phase = "break"])
       ELSE ThreadStep(i, [th EXCEPT !.pc = "run_for", !.c = th.c + 1])
    /\ UNCHANGED <<t_stop, t_paused, t_remaining, t_phase, phaseLog, tickLog,
                   doneCount>>

\* _countdown: "while self._remaining > 0:"; on exit "return True" to _run,
\* which goes on with "if c < cycles-1: self._countdown(break_s, 'break')"
\* or with the next iteration of the for loop
CdWhile(i) ==
    /\ threads[i].pc = "cd_while"
    /\ LET th == threads[i] IN
       IF t_remaining > 0
       THEN ThreadStep(i, [th EXCEPT !.pc = "cd_stop"])
       ELSE IF th.phase = "work" /\ th.c < th.cycles - 1
       THEN ThreadStep(i, [th EXCEPT !.pc = "cd_phase",
                               !.seconds = th.break_s, !.phase = "break"])
       ELSE ThreadStep(i, [th EXCEPT !.pc = "run_for", !.c = th.c + 1])
    /\ UNCHANGED <<t_stop, t_paused, t_remaining, t_phase, phaseLog, tickLog,
                   doneCount>>

\* _countdown: "if self._stop: self._phase = 'idle'; return False", after
\* which _run returns
CdStop(i) ==
    /\ threads[i].pc = "cd_stop"
    /\ IF t_stop
       THEN /\ t_phase' = "idle"
            /\ ThreadStep(i, [threads[i] EXCEPT !.pc = "exit"])
       ELSE /\ ThreadStep(i, [threads[i] EXCEPT !.pc = "cd_paused"])
            /\ UNCHANGED t_phase
    /\ UNCHANGED <<t_stop, t_paused, t_remaining, phaseLog, tickLog, doneCount>>

\* _countdown: "if not self._paused:"
CdPaused(i) ==
    /\ threads[i].pc = "cd_paused"
    /\ IF t_paused
       THEN ThreadStep(i, [threads[i] EXCEPT !.pc = "cd_sleep"])
       ELSE ThreadStep(i, [threads[i] EXCEPT !.pc = "cd_dec"])
    /\ UNCHANGED <<t_stop, t_paused, t_remaining, t_phase, phaseLog, tickLog,
                   doneCount>>

\* _countdown: "self._remaining -= 1"
CdDec(i) ==
    /\ threads[i].pc = "cd_dec"
    /\ t_remaining' = t_remaining - 1
    /\ ThreadStep(i, [threads[i] EXCEPT !.pc = "cd_tick"])
    /\ UNCHANGED <<t_stop, t_paused, t_phase, phaseLog, tickLog, doneCount>>

\* the tick notification given the value remaining had before the decrement
CdTick_BeforeDecrement(i) ==
    /\ threads[i].pc = "cd_tick"
    /\ tickLog' = Append(tickLog, <<t_remaining + 1, t_phase>>)
    /\ ThreadStep(i, [threads[i] EXCEPT !.pc = "cd_sleep"])
    /\ UNCHANGED <<t_stop, t_paused, t_remaining, t_phase, phaseLog, doneCount>>

\* _countdown: "if self._on_tick: self._on_tick(self._remaining, self._phase)"
CdTick(i) ==
    /\ threads[i].pc = "cd_tick"
    /\ tickLog' = Append(tickLog, <<t_remaining, t_phase>>)
    /\ ThreadStep(i, [threads[i] EXCEPT !.pc = "cd_sleep"])
    /\ UNCHANGED <<t_stop, t_paused, t_remaining, t_phase, phaseLog, doneCount>>

\* the sleep of a countdown that waits for resume() without looking at the
\* stop flag again
CdSleep_WaitsWhilePaused(i) ==
    /\ threads[i].pc = "cd_sleep"
    /\ ThreadStep(i, [threads[i] EXCEPT
                         !.pc = IF t_paused THEN "cd_paused" ELSE "cd_while"])
    /\ UNCHANGED <<t_stop, t_paused, t_remaining, t_phase, phaseLog, tickLog,
                   doneCount>>

\* _countdown: "time.sleep(1)"
CdSleep(i) ==
    /\ threads[i].pc = "cd_sleep"
    /\ ThreadStep(i, [threads[i] EXCEPT !.pc = "cd_while"])
    /\ UNCHANGED <<t_stop, t_paused, t_remaining, t_phase, phaseLog, tickLog,
                   doneCount>>

\* _run: "if self._on_done: self._on_done()"
OnDone(i) ==
    /\ threads[i].pc = "on_done"
    /\ doneCount' = doneCount + 1
    /\ ThreadStep(i, [threads[i] EXCEPT !.pc = "exit"])
    /\ UNCHANGED <<t_stop, t_paused, t_remaining, t_phase, phaseLog, tickLog>>

\* _run has returned: the thread ends and is_alive() turns False
ThreadExit(i) ==
    /\ threads[i].pc = "exit"
    /\ ThreadStep(i, DeadThread)
    /\ UNCHANGED <<t_stop, t_paused, t_remaining, t_phase, phaseLog, tickLog,
                   doneCount>>

TimerInit ==
    /\ lock = 0
    /\ cpc = [k \in Callers |-> "idle"]
    /\ start_ret = "none"
    /\ t = 0
    /\ threads = [i \in ThreadIds |-> NewThread]
    /\ t_stop = FALSE
    /\ t_paused = FALSE
    /\ t_remaining = 0
    /\ t_phase = "idle"
    /\ phaseLog = <<>>
    /\ tickLog = <<>>
    /\ doneCount = 0
    /\ stopCall = "none"
    /\ earlyCalls = {}
    /\ lastArgs = NoArgs
    /\ lastOp = "other"
    /\ prSnap = <<>>

TimerNext ==
    \/ \E k \in Callers : StartAcquire(k)
    \/ \E k \in Callers : StartCheck(k)
    \/ \E k \in Callers : StartClearStop(k)
    \/ \E k \in Callers : StartClearPaused(k)
    \/ \E k \in Callers : \E a \in StartArgs : StartSpawn(k, a)
    \/ \E k \in Callers : pause(k)
    \/ \E k \in Callers : resume(k)
    \/ \E k \in Callers : stop(k)
    \/ \E i \in ThreadIds : RunFor(i)
    \/ \E i \in ThreadIds : CdPhase(i)
    \/ \E i \in ThreadIds : CdNotify(i)
    \/ \E i \in ThreadIds : CdSetRem(i)
    \/ \E i \in ThreadIds : CdWhile(i)
    \/ \E i \in ThreadIds : CdStop(i)
    \/ \E i \in ThreadIds : CdPaused(i)
    \/ \E i \in ThreadIds : CdDec(i)
    \/ \E i \in ThreadIds : CdTick(i)
    \/ \E i \in ThreadIds : CdSleep(i)
    \/ \E i \in ThreadIds : OnDone(i)
    \/ \E i \in ThreadIds : ThreadExit(i)

(* ----------------------- scripts/ai_mirror.py -------------------------- *)

\* iterations of the "while True" loop
MaxIter == 3
\* the clock runs over 1..MaxTime
MaxTime == 2

\* self.ctx = deque(maxlen=12)
CtxMaxLen == 12
\* self.moods = deque(maxlen=12)
MoodsMaxLen == 12

\* iterations of the "while True" loop in a session long enough to fill
\* self.ctx
MaxTurns == 7

\* calls of get_phrase
MaxCalls == 2

\* calls of get_phrase in a run long enough to overflow _RECENT
MaxPhrases == 26

\* the labels estimate_emotion_from_face returns in the model
Moods == {"happy"}

\* the utterances _listen returns in the model, with their characters
Chars ==
    ("quit" :> <<"q", "u", "i", "t">>)
 @@ ("Goodbye now" :> <<"G", "o", "o", "d", "b", "y", "e", " ", "n", "o", "w">>)
 @@ (" Mute " :> <<" ", "M", "u", "t", "e", " ">>)
 @@ ("unmute" :> <<"u", "n", "m", "u", "t", "e">>)
 @@ ("start timer 1" :>
        <<"s", "t", "a", "r", "t", " ", "t", "i", "m", "e", "r", " ", "1">>)
 @@ ("start timer 10" :>
        <<"s", "t", "a", "r", "t", " ", "t", "i", "m", "e", "r", " ", "1", "0">>)
 @@ ("start timer quit" :>
        <<"s", "t", "a", "r", "t", " ", "t", "i", "m", "e", "r", " ", "q", "u", "i", "t">>)
 @@ ("pause timer status" :>
        <<"p", "a", "u", "s", "e", " ", "t", "i", "m", "e", "r", " ", "s", "t", "a", "t", "u", "s">>)
 @@ ("Start timer" :> <<"S", "t", "a", "r", "t", " ", "t", "i", "m", "e", "r">>)
 @@ ("start timer ²" :>
        <<"s", "t", "a", "r", "t", " ", "t", "i", "m", "e", "r", " ", "²">>)
 @@ ("pause timer" :> <<"p", "a", "u", "s", "e", " ", "t", "i", "m", "e", "r">>)
 @@ ("resume timer" :>
        <<"r", "e", "s", "u", "m", "e", " ", "t", "i", "m", "e", "r">>)
 @@ ("status" :> <<"s", "t", "a", "t", "u", "s">>)
 @@ ("what time is it" :>
        <<"w", "h", "a", "t", " ", "t", "i", "m", "e", " ", "i", "s", " ", "i", "t">>)

Utterances == DOMAIN Chars

UpperCase ==
    <<"A", "B", "C", "D", "E", "F", "G", "H", "I", "J", "K", "L", "M",
      "N", "O", "P", "Q", "R", "S", "T", "U", "V", "W", "X", "Y", "Z">>

LowerCase ==
    <<"a", "b", "c", "d", "e", "f", "g", "h", "i", "j", "k", "l", "m",
      "n", "o", "p", "q", "r", "s", "t", "u", "v", "w", "x", "y", "z">>

\* str.lower()
Lower(s) ==
    [i \in 1..Len(s) |->
        IF \E j \in 1..Len(UpperCase) : UpperCase[j] = s[i]
        THEN LowerCase[CHOOSE j \in 1..Len(UpperCase) : UpperCase[j] = s[i]]
        ELSE s[i]]

Whitespace == {" ", "\t", "\n", "\r"}

\* str.strip()
Strip(s) ==
    LET keep == {i \in 1..Len(s) : s[i] \notin Whitespace} IN
    IF keep = {} THEN <<>>
    ELSE SubSeq(s, CHOOSE i \in keep : \A j \in keep : i <= j,
                   CHOOSE i \in keep : \A j \in keep : i >= j)

\* sub in s
Contains(s, sub) ==
    \E i \in 0..(Len(s) - Len(sub)) : SubSeq(s, i + 1, i + Len(sub)) = sub

\* s.startswith(p)
StartsWith(s, p) == Len(s) >= Len(p) /\ SubSeq(s, 1, Len(p)) = p

DecimalChars == <<"0", "1", "2", "3", "4", "5", "6", "7", "8", "9">>

\* c.isdigit(): the decimal digits, and characters such as a superscript
\* two, which int() rejects
IsDigit(c) == (\E j \in 1..Len(DecimalChars) : DecimalChars[j] = c) \/ c = "²"

\* "".join([c for c in lower if c.isdigit()])
DigitsOf(s) == SelectSeq(s, IsDigit)

\* the result of int() when it raises ValueError
ValueError == -1

RECURSIVE IntOf(_)
\* int(d) for a non-empty string of isdigit() characters
IntOf(d) ==
    IF d = <<>> THEN 0
    ELSE LET c == d[Len(d)]
             rest == IntOf(SubSeq(d, 1, Len(d) - 1)) IN
         IF c = "²" \/ rest = ValueError THEN ValueError
         ELSE 10 * rest
              + (CHOOSE j \in 1..Len(DecimalChars) : DecimalChars[j] = c) - 1

K_quit == <<"q", "u", "i", "t">>
K_goodbye == <<"g", "o", "o", "d", "b", "y", "e">>
K_mute == <<"m", "u", "t", "e">>
K_unmute == <<"u", "n", "m", "u", "t", "e">>
K_start_timer == <<"s", "t", "a", "r", "t", " ", "t", "i", "m", "e", "r">>
K_pause_timer == <<"p", "a", "u", "s", "e", " ", "t", "i", "m", "e", "r">>
K_resume_timer == <<"r", "e", "s", "u", "m", "e", " ", "t", "i", "m", "e", "r">>
K_status == <<"s", "t", "a", "t", "u", "s">>
K_weather == <<"w", "e", "a", "t", "h", "e", "r">>
K_temperature == <<"t", "e", "m", "p", "e", "r", "a", "t", "u", "r", "e">>
K_time == <<"t", "i", "m", "e">>
K_name == <<"n", "a", "m", "e">>
K_camera == <<"c", "a", "m", "e", "r", "a">>
\* the "25" of: int(... or "25")
K_default_digits == <<"2", "5">>

Pad2(n) == IF n < 10 THEN "0" \o ToString(n) ELSE ToString(n)

\* time.strftime('%H:%M') at clock reading tm (UTC)
StrfHM(tm) == Pad2((tm \div 3600) % 24) \o ":" \o Pad2((tm \div 60) % 60)

\* _offline_answer: the keyword test that decides the answer, on
\* u = (user or "").lower().strip()
OfflineKeyword(u) ==
    IF u = <<>> THEN "empty"
    ELSE IF Contains(u, K_weather) \/ Contains(u, K_temperature) THEN "weather"
    ELSE IF Contains(u, K_time) THEN "time"
    ELSE IF Contains(u, K_name) THEN "name"
    ELSE IF Contains(u, K_camera) THEN "camera"
    ELSE "other"

\* the keyword test of _offline_answer, for each utterance of the model
OfflineKeywordOf == [u \in Utterances |-> OfflineKeyword(Strip(Lower(Chars[u])))]

\* _offline_answer(user, mood), at clock reading tm
OfflineAnswer(text, md, tm) ==
    LET k == OfflineKeywordOf[text] IN
    IF k = "empty" THEN "I didn't catch that. Try again?"
    ELSE IF k = "weather"
    THEN "I can't check live weather yet, but it looks like a good day to drink water and stretch."
    ELSE IF k = "time" THEN "It's " \o StrfHM(tm) \o "."
    ELSE IF k = "name" THEN "I'm your AI mirror."
    ELSE IF k = "camera"
    THEN "The camera is on for face detection; say 'quit' to exit."
    ELSE IF md # "" THEN "You look a bit " \o md \o " to me. How can I help?"
    ELSE "Okay."

\* a bounded append that refuses the new entry when the deque is full
DequeAppend_DropsNewest(q, x, maxlen) ==
    IF Len(q) < maxlen THEN Append(q, x) ELSE q

\* deque(maxlen=cap).append(x)
DequeAppend(q, x, maxlen) ==
    IF Len(q) < maxlen THEN Append(q, x) ELSE Append(Tail(q), x)

EmptyOut == [calls |-> <<>>, console |-> <<>>, said |-> <<>>, played |-> <<>>]

\* say(text): print "[TTS] text", then _say(text) if the engine was imported
say(text, lg) ==
    [lg EXCEPT !.console = Append(@, <<"[TTS]", text>>),
               !.said = Append(@, text),
               !.played = IF tts THEN Append(@, text) ELSE @]

\* _speak with the muted flag ignored
speak_IgnoresMuted(text, m, lg) == say(text, lg)

\* AIMirror._speak(text), m being self.muted at the call
speak(text, m, lg) ==
    IF ~m THEN say(text, lg)
    ELSE [lg EXCEPT !.console = Append(@, <<"[TTS muted]", text>>)]

\* a call of _speak, put on record with the muted flag it found
Speak(text, m, lg) ==
    speak(text, m, [lg EXCEPT !.calls = Append(@, [text |-> text, muted |-> m])])

\* no "pause timer" has paused the timer that is set
NoFreeze == [left |-> 0, since |-> 0]

\* the time the timer has left: timer_deadline - time.time(), 0 once the
\* deadline has passed
SecondsLeft == IF timer_deadline > now THEN timer_deadline - now ELSE 0

\* "continue": the next iteration of the while loop
Continue == s_pc' = "sense" /\ iter' = iter + 1

\* the outcomes of reading the camera and classifying the frame
SenseOutcomes == {"noframe", "raise", "nomood"} \cup Moods

\* run, "camera + emotion": one frame is read, its mood recorded, and the
\* preview window polled for the Q key.  The utterance of the previous
\* iteration is not read again (user is assigned by _listen before its next
\* use) and is dropped here, as are the records of what _speak did.
SenseWithin(r, key, n) ==
    /\ s_pc = "sense"
    /\ iter < n
    /\ cap # "open" => (r = "noframe" /\ ~key)
    /\ r \in {"noframe", "raise"} => ~key
    /\ mood' = IF r \in Moods THEN r ELSE ""
    /\ moods' = IF r \in Moods THEN DequeAppend(moods, r, MoodsMaxLen) ELSE moods
    /\ IF r = "raise"
       THEN s_pc' = "crashed" /\ out' = EmptyOut
       ELSE IF key
       THEN s_pc' = "cleanup" /\ out' = Speak("Goodbye.", muted, EmptyOut)
       ELSE s_pc' = "timer" /\ out' = EmptyOut
    /\ heardAt' = 0
    /\ user' = ""
    /\ UNCHANGED <<iter, now, cap, ai, tts, muted, ctx, timer_deadline, paused,
                   muteCmd,
                   timerSet, frozen, appended>>
    /\ UNCHANGED <<timerVars, phraseVars>>

\* the camera + emotion step of a session of at most MaxIter iterations
Sense(r, key) == SenseWithin(r, key, MaxIter)

\* the timer check with the deadline left in place after the announcement
TimerCheck_KeepsDeadline ==
    /\ s_pc = "timer"
    /\ IF timer_deadline # 0 /\ ~paused /\ now >= timer_deadline
       THEN /\ out' = Speak("Timer done.", muted, out)
            /\ timerSet' = [timerSet EXCEPT !.announced = @ + 1]
            /\ frozen' = NoFreeze
            /\ UNCHANGED timer_deadline
       ELSE UNCHANGED <<out, timer_deadline, timerSet, frozen>>
    /\ s_pc' = "prompt"
    /\ UNCHANGED <<iter, now, cap, ai, tts, muted, moods, ctx, paused, mood,
                   user, heardAt, muteCmd, appended>>
    /\ UNCHANGED <<timerVars, phraseVars>>

\* run, "status updates (timer)"
TimerCheck ==
    /\ s_pc = "timer"
    /\ IF timer_deadline # 0 /\ ~paused /\ now >= timer_deadline
       THEN /\ out' = Speak("Timer done.", muted, out)
            /\ timer_deadline' = 0
            /\ timerSet' = [timerSet EXCEPT !.announced = @ + 1]
            /\ frozen' = NoFreeze
       ELSE UNCHANGED <<out, timer_deadline, timerSet, frozen>>
    /\ s_pc' = "prompt"
    /\ UNCHANGED <<iter, now, cap, ai, tts, muted, moods, ctx, paused, mood,
                   user, heardAt, muteCmd,
                   appended>>
    /\ UNCHANGED <<timerVars, phraseVars>>

\* run, "prompt user"
Prompt ==
    /\ s_pc = "prompt"
    /\ out' = Speak("Say something! (Speak clearly for ~5 seconds...)", muted, out)
    /\ s_pc' = "listen"
    /\ UNCHANGED <<iter, now, cap, ai, tts, muted, moods, ctx, timer_deadline,
                   paused, mood, user, heardAt, muteCmd,
                   timerSet, frozen, appended>>
    /\ UNCHANGED <<timerVars, phraseVars>>

\* the listen step with a timeout taken as the end of the timer
Listen_SilenceClearsTimer(u) ==
    /\ s_pc = "listen"
    /\ user' = u
    /\ heardAt' = Len(out.calls)
    /\ IF u = ""
       THEN Continue /\ timer_deadline' = 0 /\ paused' = FALSE
       ELSE s_pc' = "dispatch" /\ UNCHANGED <<iter, timer_deadline, paused>>
    /\ UNCHANGED <<now, cap, ai, tts, muted, moods, ctx,
                   mood, out, muteCmd,
                   timerSet, frozen, appended>>
    /\ UNCHANGED <<timerVars, phraseVars>>

\* run: "user = self._listen()", "if not user: continue"
Listen(u) ==
    /\ s_pc = "listen"
    /\ user' = u
    /\ heardAt' = Len(out.calls)
    /\ IF u = "" THEN Continue ELSE s_pc' = "dispatch" /\ UNCHANGED iter
    /\ UNCHANGED <<now, cap, ai, tts, muted, moods, ctx, timer_deadline, paused,
                   mood, out, muteCmd,
                   timerSet, frozen, appended>>
    /\ UNCHANGED <<timerVars, phraseVars>>

\* run: 'if "quit" in lower or "goodbye" in lower' without the break
DoQuit_NoBreak ==
    /\ out' = Speak("Goodbye.", muted, out)
    /\ Continue
    /\ UNCHANGED <<muted, ctx, timer_deadline, paused, timerSet, frozen, appended>>

\* run: 'if "quit" in lower or "goodbye" in lower: _speak("Goodbye."); break'
DoQuit ==
    /\ out' = Speak("Goodbye.", muted, out)
    /\ s_pc' = "cleanup"
    /\ UNCHANGED <<iter, muted, ctx, timer_deadline, paused, timerSet, frozen, appended>>

\* run: 'if "mute" == lower.strip(): self.muted = True; continue'
DoMute ==
    /\ muted' = TRUE
    /\ Continue
    /\ UNCHANGED <<out, ctx, timer_deadline, paused, timerSet, frozen, appended>>

\* the unmute branch with the confirmation spoken ahead of the assignment
DoUnmute_SpeaksFirst ==
    /\ out' = Speak("Okay, I can speak again.", muted, out)
    /\ muted' = FALSE
    /\ Continue
    /\ UNCHANGED <<ctx, timer_deadline, paused, timerSet, frozen, appended>>

\* run: 'if "unmute" == lower.strip(): self.muted = False; _speak(...); continue'
DoUnmute ==
    /\ muted' = FALSE
    /\ out' = Speak("Okay, I can speak again.", muted', out)
    /\ Continue
    /\ UNCHANGED <<ctx, timer_deadline, paused, timerSet, frozen, appended>>

\* run: 'int("".join([c for c in lower if c.isdigit()]) or "25")'
TimerSeconds(lower) ==
    LET d == DigitsOf(lower) IN IntOf(IF d = <<>> THEN K_default_digits ELSE d)

\* the number parsed from each utterance of the model
TimerSecondsOf == [u \in Utterances |-> TimerSeconds(Lower(Chars[u]))]

\* the start timer branch with the number taken as minutes
DoStartTimer_Minutes ==
    LET n == TimerSecondsOf[user] IN
    /\ IF n # ValueError
       THEN /\ timer_deadline' = now + 60 * n
            /\ paused' = FALSE
            /\ timerSet' = [at |-> now, by |-> user, announced |-> 0]
            /\ frozen' = NoFreeze
            /\ out' = Speak("Timer set for " \o ToString(n) \o " seconds.",
                            muted, out)
       ELSE /\ out' = Speak("Couldn't set the timer.", muted, out)
            /\ UNCHANGED <<timer_deadline, paused, timerSet, frozen>>
    /\ Continue
    /\ UNCHANGED <<muted, ctx, appended>>

\* run: 'if lower.startswith("start timer")': a failure of int() leaves the
\* timer as it was
DoStartTimer ==
    LET n == TimerSecondsOf[user] IN
    /\ IF n # ValueError
       THEN /\ timer_deadline' = now + n
            /\ paused' = FALSE
            /\ timerSet' = [at |-> now, by |-> user, announced |-> 0]
            /\ frozen' = NoFreeze
            /\ out' = Speak("Timer set for " \o ToString(n) \o " seconds.",
                            muted, out)
       ELSE /\ out' = Speak("Couldn't set the timer.", muted, out)
            /\ UNCHANGED <<timer_deadline, paused, timerSet, frozen>>
    /\ Continue
    /\ UNCHANGED <<muted, ctx, appended>>

\* the pause branch without the test of timer_deadline
DoPauseTimer_NoTimerTest ==
    /\ paused' = TRUE
    /\ out' = Speak("Timer paused.", muted, out)
    /\ frozen' = IF ~paused THEN [left |-> SecondsLeft, since |-> 0] ELSE frozen
    /\ Continue
    /\ UNCHANGED <<muted, ctx, timer_deadline, timerSet, appended>>

\* run: 'if "pause timer" in lower'
DoPauseTimer ==
    /\ IF timer_deadline # 0
       THEN paused' = TRUE /\ out' = Speak("Timer paused.", muted, out)
       ELSE UNCHANGED paused /\ out' = Speak("No running timer.", muted, out)
    /\ frozen' = IF timer_deadline # 0 /\ ~paused
                 THEN [left |-> SecondsLeft, since |-> 0]
                 ELSE frozen
    /\ Continue
    /\ UNCHANGED <<muted, ctx, timer_deadline, timerSet, appended>>

\* the resume branch without the test of paused
DoResumeTimer_IgnoresPaused ==
    /\ IF timer_deadline # 0
       THEN paused' = FALSE /\ out' = Speak("Timer resumed.", muted, out)
       ELSE UNCHANGED paused /\ out' = Speak("No paused timer.", muted, out)
    /\ frozen' = IF timer_deadline # 0 /\ paused
                 THEN [frozen EXCEPT !.since = now]
                 ELSE frozen
    /\ Continue
    /\ UNCHANGED <<muted, ctx, timer_deadline, timerSet, appended>>

\* run: 'if "resume timer" in lower'
DoResumeTimer ==
    /\ IF timer_deadline # 0 /\ paused
       THEN paused' = FALSE /\ out' = Speak("Timer resumed.", muted, out)
       ELSE UNCHANGED paused /\ out' = Speak("No paused timer.", muted, out)
    /\ frozen' = IF timer_deadline # 0 /\ paused
                 THEN [frozen EXCEPT !.since = now]
                 ELSE frozen
    /\ Continue
    /\ UNCHANGED <<muted, ctx, timer_deadline, timerSet, appended>>

\* run: 'if "status" in lower'
DoStatus ==
    /\ IF moods # <<>>
       THEN out' = Speak("I think you're " \o moods[Len(moods)] \o ".", muted, out)
       ELSE out' = Speak("I'm running fine.", muted, out)
    /\ Continue
    /\ UNCHANGED <<muted, ctx, timer_deadline, paused, timerSet, frozen, appended>>

\* what self.ai.reply does when called: it returns a text, returns "",
\* returns None, raises, or raises TypeError and is called again with the
\* utterance alone (that call returning a text or raising)
ReplyOutcomes ==
    {"text", "empty", "none", "raise", "typeerror_text", "typeerror_raise"}

\* the reply branch with the utterance appended ahead of the responder call
DoReply_AppendsUserFirst(o) ==
    /\ ~ai => o = "none"
    /\ IF o = "typeerror_raise"
       THEN /\ s_pc' = "crashed"
            /\ ctx' = DequeAppend(ctx, user, CtxMaxLen)
            /\ appended' = Append(appended, user)
            /\ UNCHANGED <<iter, out>>
       ELSE LET reply == IF o \in {"text", "typeerror_text"} THEN "Sure."
                         ELSE IF o = "empty" THEN ""
                         ELSE OfflineAnswer(user, mood, now) IN
            /\ ctx' = DequeAppend(DequeAppend(ctx, user, CtxMaxLen), reply, CtxMaxLen)
            /\ appended' = appended \o <<user, reply>>
            /\ out' = Speak(reply, muted, out)
            /\ Continue
    /\ UNCHANGED <<muted, timer_deadline, paused, timerSet, frozen>>

\* run, "AI / offline reply"
DoReply(o) ==
    /\ ~ai => o = "none"
    /\ IF o = "typeerror_raise"
       THEN /\ s_pc' = "crashed"
            /\ UNCHANGED <<iter, ctx, out, appended>>
       ELSE LET reply == IF o \in {"text", "typeerror_text"} THEN "Sure."
                         ELSE IF o = "empty" THEN ""
                         ELSE OfflineAnswer(user, mood, now) IN
            /\ ctx' = DequeAppend(DequeAppend(ctx, user, CtxMaxLen), reply, CtxMaxLen)
            /\ appended' = appended \o <<user, reply>>
            /\ out' = Speak(reply, muted, out)
            /\ Continue
    /\ UNCHANGED <<muted, timer_deadline, paused, timerSet, frozen>>

\* the if chain with the status test ahead of the timer tests
DispatchRule_StatusFirst(lower) ==
    IF Contains(lower, K_quit) \/ Contains(lower, K_goodbye) THEN "quit"
    ELSE IF Strip(lower) = K_mute THEN "mute"
    ELSE IF Strip(lower) = K_unmute THEN "unmute"
    ELSE IF Contains(lower, K_status) THEN "status"
    ELSE IF StartsWith(lower, K_start_timer) THEN "start timer"
    ELSE IF Contains(lower, K_pause_timer) THEN "pause timer"
    ELSE IF Contains(lower, K_resume_timer) THEN "resume timer"
    ELSE "reply"

\* run, "commands": the tests of the if chain, in order, on lower = user.lower()
DispatchRule(lower) ==
    IF Contains(lower, K_quit) \/ Contains(lower, K_goodbye) THEN "quit"
    ELSE IF Strip(lower) = K_mute THEN "mute"
    ELSE IF Strip(lower) = K_unmute THEN "unmute"
    ELSE IF StartsWith(lower, K_start_timer) THEN "start timer"
    ELSE IF Contains(lower, K_pause_timer) THEN "pause timer"
    ELSE IF Contains(lower, K_resume_timer) THEN "resume timer"
    ELSE IF Contains(lower, K_status) THEN "status"
    ELSE "reply"

\* the rule taken for each utterance of the model
RuleOf == [u \in Utterances |-> DispatchRule(Lower(Chars[u]))]

\* the utterances equal to "mute" / "unmute" once trimmed, in any letter case
MuteUtterances == {u \in Utterances : Strip(Lower(Chars[u])) = K_mute}
UnmuteUtterances == {u \in Utterances : Strip(Lower(Chars[u])) = K_unmute}

\* run, "commands": the first rule that matches the utterance is taken
Dispatch ==
    /\ s_pc = "dispatch"
    /\ LET rule == RuleOf[user] IN
       IF rule = "quit" THEN DoQuit
       ELSE IF rule = "mute" THEN DoMute
       ELSE IF rule = "unmute" THEN DoUnmute
       ELSE IF rule = "start timer" THEN DoStartTimer
       ELSE IF rule = "pause timer" THEN DoPauseTimer
       ELSE IF rule = "resume timer" THEN DoResumeTimer
       ELSE IF rule = "status" THEN DoStatus
       ELSE \E o \in ReplyOutcomes : DoReply(o)
    /\ muteCmd' = IF user \in MuteUtterances THEN TRUE
                  ELSE IF user \in UnmuteUtterances THEN FALSE
                  ELSE muteCmd
    /\ UNCHANGED <<now, cap, ai, tts, moods, mood, user, heardAt>>
    /\ UNCHANGED <<timerVars, phraseVars>>

\* run, "cleanup": self.cap.release()
Cleanup ==
    /\ s_pc = "cleanup"
    /\ cap' = IF cap = "open" THEN "released" ELSE cap
    /\ s_pc' = "done"
    /\ UNCHANGED <<iter, now, ai, tts, muted, moods, ctx, timer_deadline,
                   paused, mood, user, out, heardAt, muteCmd,
                   timerSet, frozen, appended>>
    /\ UNCHANGED <<timerVars, phraseVars>>

\* time passes
Tick ==
    /\ now < MaxTime
    /\ s_pc \notin {"done", "crashed"}
    /\ now' = now + 1
    /\ UNCHANGED <<s_pc, iter, cap, ai, tts, muted, moods, ctx, timer_deadline,
                   paused, mood, user, out, heardAt, muteCmd,
                   timerSet, frozen, appended>>
    /\ UNCHANGED <<timerVars, phraseVars>>

\* no "start timer" has set the timer yet
NoTimerSet == [at |-> 0, by |-> "", announced |-> 0]

\* AIMirror.__init__ and the first lines of run, for a camera that opened or
\* not, a responder that was built or not, a speech engine imported or not
SessionStart(camera, responder, engine) ==
    /\ s_pc = "sense"
    /\ iter = 0
    /\ now = 1
    /\ cap = camera
    /\ ai = responder
    /\ tts = engine
    /\ muted = FALSE
    /\ moods = <<>>
    /\ ctx = <<>>
    /\ timer_deadline = 0
    /\ paused = FALSE
    /\ mood = ""
    /\ user = ""
    /\ out = EmptyOut
    /\ heardAt = 0
    /\ muteCmd = FALSE
    /\ timerSet = NoTimerSet
    /\ frozen = NoFreeze
    /\ appended = <<>>

SessionInit ==
    \E camera \in {"none", "open"} : \E responder \in BOOLEAN :
        \E engine \in BOOLEAN : SessionStart(camera, responder, engine)

SessionNext ==
    \/ \E r \in SenseOutcomes : \E key \in BOOLEAN : Sense(r, key)
    \/ TimerCheck
    \/ Prompt
    \/ \E u \in Utterances \cup {""} : Listen(u)
    \/ Dispatch
    \/ Cleanup
    \/ Tick

(* ------------------------- utils/phrases.py ---------------------------- *)

\* _RECENT = deque(maxlen=24)
RecentMaxLen == 24

\* a context without any key
EmptyCtx == [emotion |-> "", people |-> <<>>, motion |-> <<>>, tod |-> "", name |-> ""]

\* no call of get_phrase was made yet
NoCall == [ctx |-> EmptyCtx, first |-> "", retried |-> FALSE, line |-> ""]

\* the module as imported
PhraseInit ==
    /\ RECENT = <<>>
    /\ ph_calls = 0
    /\ ph_last = NoCall
    /\ returned = <<>>

\* the fragment libraries; the typographic apostrophe of the source is written '
OPENERS ==
    ("morning" :> <<"Good morning", "Fresh start", "New day energy">>)
 @@ ("afternoon" :> <<"Good afternoon", "Midday momentum", "Keeping pace">>)
 @@ ("evening" :> <<"Good evening", "Winding down with focus", "Evening clarity">>)
 @@ ("night" :> <<"Late but steady", "Quiet hours focus", "Night mode">>)

HAPPY ==
    <<"Love that vibe", "That smile suits you", "Nice energy",
      "Mood looks great", "Looking upbeat">>

SURPRISED == <<"Something unexpected?", "Caught off guard?", "Surprise face, huh?">>

ANGRY == <<"Anger is just energy", "Strong focus incoming", "Let's channel it">>

SAD == <<"Let's keep it gentle", "Small steps still count", "Steady and kind">>

NEUTRAL == <<"Ready when you are", "Calm and focused", "I'm with you">>

\* the list ACTIONS: each template as the text before and after its {len}
\* field
ACTION_FRAGMENTS ==
    <<[pre |-> "Want a ", post |-> "-minute focus block?", len |-> TRUE],
      [pre |-> "Shall I set a ", post |-> "-minute timer?", len |-> TRUE],
      [pre |-> "How about a tiny next step?", post |-> "", len |-> FALSE],
      [pre |-> "Want a two-minute micro-plan?", post |-> "", len |-> FALSE],
      [pre |-> "Prefer a quick summary of today?", post |-> "", len |-> FALSE]>>

\* TAILS_PEOPLE, with the key "many" as written
TAILS_PEOPLE ==
    ("0" :> <<"It's just us here.", "Room is all yours.">>)
 @@ ("1" :> <<"Looks like there's someone with you.", "Seems you're not alone.">>)
 @@ ("many" :> <<"I see a busy background.", "Looks lively behind you.">>)

\* the lengths get_phrase draws from, at first and when it regenerates
Lengths == <<10, 15, 20, 25>>
RetryLengths == <<12, 18, 30>>

\* random.choice(pool), r being the draw of the random source
Choice(pool, r) == pool[((r - 1) % Len(pool)) + 1]

\* template.format(len=n)
Format(a, n) == IF a.len THEN a.pre \o ToString(n) \o a.post ELSE a.pre

RECURSIVE Join(_)
\* " ".join(parts)
Join(parts) ==
    IF parts = <<>> THEN ""
    ELSE IF Len(parts) = 1 THEN parts[1]
    ELSE parts[1] \o " " \o Join(Tail(parts))

\* ctx.get(key) without the default
OrDefault_NoDefault(v, dflt) == v

\* ctx.get(key) or default: an absent key, None and "" all give the default
OrDefault(v, dflt) == IF v = "" THEN dflt ELSE v

\* _novel(line), mem being _RECENT
novel(line, mem) == \A j \in 1..Len(mem) : mem[j] # line

\* _people_tail(people): <<>> stands for None, <<n>> for the count n
people_tail(people, r) ==
    IF people = <<>> THEN ""
    ELSE IF people[1] <= 0 THEN Choice(TAILS_PEOPLE["0"], r)
    ELSE IF people[1] = 1 THEN Choice(TAILS_PEOPLE["1"], r)
    ELSE Choice(TAILS_PEOPLE["many"], r)

\* _motion_tail(motion): <<>> stands for None, <<h>> for h hundredths
motion_tail(motion) ==
    IF motion = <<>> THEN ""
    ELSE IF motion[1] > 22 THEN "Quite a bit of movement behind you."
    ELSE IF motion[1] > 12 THEN "Some activity in the background."
    ELSE IF motion[1] < 5 THEN "Background looks calm."
    ELSE ""

\* sub occurs in the string text
ContainsStr(text, sub) ==
    \E i \in 1..(Len(text) - Len(sub) + 1) : SubSeq(text, i, i + Len(sub) - 1) = sub

\* _choose_nonrepeat passing over the candidates that occur inside a
\* remembered line
choose_nonrepeat_SkipsSeenFragments(cands, mem, r) ==
    LET fresh == SelectSeq(cands,
                     LAMBDA c : \A j \in 1..Len(mem) : ~ContainsStr(mem[j], c)) IN
    Choice(IF fresh # <<>> THEN fresh ELSE cands, r)

\* _choose_nonrepeat(cands): the candidates are compared with the rendered
\* lines of _RECENT
choose_nonrepeat(cands, mem, r) ==
    LET fresh == SelectSeq(cands, LAMBDA c : novel(c, mem)) IN
    Choice(IF fresh # <<>> THEN fresh ELSE cands, r)

\* _emotion_bucket(em)
emotion_bucket(em) ==
    IF em = "happy" THEN HAPPY
    ELSE IF em = "surprised" THEN SURPRISED
    ELSE IF em = "angry" THEN ANGRY
    ELSE IF em = "sad" THEN SAD
    ELSE NEUTRAL

\* OPENERS.get(tod, ["Let's focus"])
opener_pool(tod) == IF tod \in DOMAIN OPENERS THEN OPENERS[tod] ELSE <<"Let's focus">>

\* the draws of the random source in a call of get_phrase up to the novelty
\* check, and in the regeneration, each random.choice taking its draw from
\* picks
FirstDraws(picks) ==
    [length : picks, opener : picks, affect : picks, action : picks,
     swap : BOOLEAN, ptail : picks]
\* the draws of a call for the context c: _people_tail draws only for a
\* people count
FirstDrawsFor(c, picks) ==
    {d \in FirstDraws(picks) : c.people = <<>> => d.ptail = 1}
RetryDraws(picks) ==
    [opener : picks, affect : picks, action : picks, keep : BOOLEAN,
     length : picks]

\* get_phrase: 'tails = [t for t in tails if t]'
Tails(c, d) ==
    SelectSeq(<<people_tail(c.people, d.ptail), motion_tail(c.motion)>>,
              LAMBDA x : x # "")

\* get_phrase: the line assembled first, with the draws d
FirstLine(c, d) ==
    LET name == OrDefault(c.name, "there")
        tod == OrDefault(c.tod, "day")
        emotion == OrDefault(c.emotion, "neutral")
        length == Choice(Lengths, d.length)
        opener == Choice(opener_pool(tod), d.opener)
        affect == Choice(emotion_bucket(emotion), d.affect)
        action == Format(Choice(ACTION_FRAGMENTS, d.action), length)
        tails == Tails(c, d)
        parts == IF d.swap
                 THEN <<opener \o ", " \o name \o ".", action, affect \o ".">>
                 ELSE <<opener \o ", " \o name \o ".", affect \o ".", action>> IN
    Join(IF tails # <<>> THEN Append(parts, Join(tails)) ELSE parts)

\* get_phrase: the line regenerated once, with the draws e, the tails and
\* the length drawn at first being kept
RetryLine(c, d, e, mem) ==
    LET name == OrDefault(c.name, "there")
        tod == OrDefault(c.tod, "day")
        emotion == OrDefault(c.emotion, "neutral")
        length == Choice(Lengths, d.length)
        opener == Choice(opener_pool(tod), e.opener)
        affect == choose_nonrepeat(emotion_bucket(emotion), mem, e.affect)
        action == Format(Choice(ACTION_FRAGMENTS, e.action),
                         IF e.keep THEN length ELSE Choice(RetryLengths, e.length))
        tails == Tails(c, d)
        parts == <<opener \o ", " \o name \o ".", affect \o ".", action>> IN
    Join(IF tails # <<>> THEN Append(parts, Join(tails)) ELSE parts)

\* get_phrase without the regeneration
get_phrase_NoRetry(c, d, picks) ==
    /\ ph_calls < MaxCalls
    /\ LET first == FirstLine(c, d) IN
       /\ RECENT' = DequeAppend(RECENT, first, RecentMaxLen)
       /\ ph_last' = [ctx |-> c, first |-> first, retried |-> FALSE, line |-> first]
       /\ returned' = Append(returned, first)
    /\ ph_calls' = ph_calls + 1
    /\ UNCHANGED <<timerVars, sessionVars>>

\* get_phrase with the line assembled first remembered, whatever is returned
get_phrase_within_RemembersFirst(c, d, picks, n) ==
    /\ ph_calls < n
    /\ LET first == FirstLine(c, d) IN
       IF novel(first, RECENT)
       THEN /\ RECENT' = DequeAppend(RECENT, first, RecentMaxLen)
            /\ ph_last' = [ctx |-> c, first |-> first, retried |-> FALSE,
                           line |-> first]
            /\ returned' = Append(returned, first)
       ELSE \E e \in RetryDraws(picks) :
               LET line == RetryLine(c, d, e, RECENT) IN
               /\ RECENT' = DequeAppend(RECENT, first, RecentMaxLen)
               /\ ph_last' = [ctx |-> c, first |-> first, retried |-> TRUE,
                              line |-> line]
               /\ returned' = Append(returned, line)
    /\ ph_calls' = ph_calls + 1
    /\ UNCHANGED <<timerVars, sessionVars>>

\* get_phrase(ctx), one of at most n calls: the line is assembled,
\* regenerated once if _RECENT holds it, remembered and returned
get_phrase_within(c, d, picks, n) ==
    /\ ph_calls < n
    /\ LET first == FirstLine(c, d) IN
       IF novel(first, RECENT)
       THEN /\ RECENT' = DequeAppend(RECENT, first, RecentMaxLen)
            /\ ph_last' = [ctx |-> c, first |-> first, retried |-> FALSE,
                           line |-> first]
            /\ returned' = Append(returned, first)
       ELSE \E e \in RetryDraws(picks) :
               LET line == RetryLine(c, d, e, RECENT) IN
               /\ RECENT' = DequeAppend(RECENT, line, RecentMaxLen)
               /\ ph_last' = [ctx |-> c, first |-> first, retried |-> TRUE,
                              line |-> line]
               /\ returned' = Append(returned, line)
    /\ ph_calls' = ph_calls + 1
    /\ UNCHANGED <<timerVars, sessionVars>>

\* a call of get_phrase by a caller that makes at most MaxCalls calls
get_phrase(c, d, picks) == get_phrase_within(c, d, picks, MaxCalls)

\* the contexts of a caller whose situation varies between two
VaryingContexts ==
    {EmptyCtx,
     [emotion |-> "happy", people |-> <<>>, motion |-> <<30>>,
      tod |-> "morning", name |-> "Edgars"]}

\* the random source gives one of two draws to each random.choice
TwoPicks == {1, 2}

PhraseNext ==
    \E c \in VaryingContexts : \E d \in FirstDrawsFor(c, TwoPicks) :
        get_phrase(c, d, TwoPicks)

\* calls of get_phrase by one caller, the timer and the session standing still
InitPhrase == TimerInit /\ SessionStart("none", FALSE, FALSE) /\ PhraseInit

SpecPhrase == InitPhrase /\ [][PhraseNext]_vars

\* every combination of present and absent emotion, people, motion, time of
\* day and name
AllContexts ==
    [emotion : {"", "sad"}, people : {<<>>, <<2>>}, motion : {<<>>, <<30>>},
     tod : {"", "night"}, name : {"", "Edgars"}]

\* the random source gives the same draw to each random.choice
OnePick == {1}

TotalNext ==
    \E c \in AllContexts : \E d \in FirstDrawsFor(c, OnePick) :
        get_phrase(c, d, OnePick)

SpecPhraseTotal == InitPhrase /\ [][TotalNext]_vars

\* the draws of the n-th call in a long run: the random source steps through
\* the lengths, the openers and the affect fragments and alternates the order
\* of the middle parts, so that the lines assembled first come round again
\* after twelve calls
StreamDraw(n) ==
    [length |-> n, opener |-> n, affect |-> n, action |-> 1,
     swap |-> (n % 2 = 0), ptail |-> 1]

\* a caller that passes the same context on every call
SameContext(c) == ph_calls > 0 => c = ph_last.ctx

MemoryNext ==
    \E c \in VaryingContexts :
        /\ SameContext(c)
        /\ get_phrase_within(c, StreamDraw(ph_calls + 1), OnePick, MaxPhrases)

\* enough calls of get_phrase by one caller to overflow _RECENT
SpecPhraseMemory == InitPhrase /\ [][MemoryNext]_vars

\* a PomodoroTimer driven by its callers; AIMirror.run keeps its own
\* timer_deadline and does not use the class, so the session stands still
InitTimer == TimerInit /\ SessionStart("none", FALSE, FALSE) /\ PhraseInit

SpecTimer == InitTimer /\ [][TimerNext]_vars

\* a session of AIMirror.run, with an unused PomodoroTimer
Init == TimerInit /\ SessionInit /\ PhraseInit

SpecSession == Init /\ [][SessionNext]_vars

\* what the user says in the long session: silence, and one utterance for
\* each rule of the dispatch
HistoryUtterances ==
    {"", "quit", " Mute ", "unmute", "start timer 1", "pause timer",
     "resume timer", "status", "what time is it"}

HistoryNext ==
    \/ \E r \in SenseOutcomes : \E key \in BOOLEAN : SenseWithin(r, key, MaxTurns)
    \/ TimerCheck
    \/ Prompt
    \/ \E u \in HistoryUtterances : Listen(u)
    \/ Dispatch
    \/ Cleanup
    \/ Tick

\* a session of AIMirror.run of up to MaxTurns iterations, without a camera
\* and with a responder
InitHistory == TimerInit /\ SessionStart("none", TRUE, FALSE) /\ PhraseInit

SpecHistory == InitHistory /\ [][HistoryNext]_vars

(* ------------------- properties of the timer --------------------------- *)

\* what a caller can observe of the timer: its fields, its thread, and the
\* notifications issued so far
TimerState ==
    <<t, threads, t_stop, t_paused, t_remaining, t_phase, phaseLog, tickLog,
      doneCount>>

\* C1: a start() whose running check finds the countdown thread alive
\* returns False and leaves remaining, phase, paused, stop, the thread and
\* the notifications as they were.
C1_StartWhileRunningRejected ==
    [][\A k \in Callers :
         (cpc[k] = "check" /\ is_running /\ cpc'[k] # "check")
            => (cpc'[k] = "idle" /\ start_ret' = "False" /\ UNCHANGED TimerState)
      ]_vars

C1_Witness ==
    /\ start_ret = "False"
    /\ is_running
    /\ t_remaining > 0
    /\ lock = 0

AliveThreads == {i \in ThreadIds : IsAlive(i)}

\* C2: whatever the interleaving of the callers' start() calls, at most one
\* countdown thread is executing _run.
C2_OneCountdownThread == Cardinality(AliveThreads) <= 1

\* a second start() is inside the lock while the thread of a later run counts
C2_Witness ==
    /\ \E k \in Callers : cpc[k] = "check"
    /\ t = 2
    /\ IsAlive(2)
    /\ threads[1].pc = "dead"

\* work, break, work, ... with c work entries and c-1 break entries
ExpectedPhases(c) ==
    [j \in 1..(2 * c - 1) |-> IF j % 2 = 1 THEN "work" ELSE "break"]

IsPrefix(s, r) ==
    /\ Len(s) <= Len(r)
    /\ \A j \in 1..Len(s) : s[j] = r[j]

\* the notifications on record are those of the thread self._t, and no
\* stop() has been called since the start() that created it cleared the flag
RunNotStopped ==
    /\ stopCall = "none"
    /\ t # 0
    /\ \A k \in Callers : cpc[k] \notin {"clear_paused", "spawn"}

\* C3: for a run of c >= 1 cycles that is never stopped, the phase
\* notifications are work, break, work, ... (c work, c-1 break), then one
\* completion notification and nothing after it.
C3_PhaseSequence ==
    RunNotStopped =>
        /\ IsPrefix(phaseLog, ExpectedPhases(lastArgs.cycles))
        /\ doneCount <= 1
        /\ doneCount = 1 =>
              /\ phaseLog = ExpectedPhases(lastArgs.cycles)
              /\ threads[t].pc \in {"exit", "dead"}
        /\ threads[t].pc \in {"exit", "dead"} =>
              /\ phaseLog = ExpectedPhases(lastArgs.cycles)
              /\ doneCount = 1

C3_Witness ==
    /\ RunNotStopped
    /\ threads[t].pc = "dead"
    /\ lastArgs.cycles = 2
    /\ lastArgs.work_s > 0
    /\ phaseLog = <<"work", "break", "work">>
    /\ doneCount = 1

\* C4 (as claimed): when all cycles complete without a stop, completion is
\* notified exactly once and status() then reports phase idle, running false.
C4_CompletedIsIdle ==
    (RunNotStopped /\ threads[t].pc = "dead")
        => (doneCount = 1 /\ status.phase = "idle" /\ status.running = FALSE)

\* C5 (as claimed): once stop() has returned, having found the timer counting
\* in a work or break phase, no tick and no phase notification is issued, and
\* the phase is idle when the thread has ended.
C5_NoNotificationAfterStop ==
    /\ [][stopCall = "counting"
            => (phaseLog' = phaseLog /\ tickLog' = tickLog)]_vars
    /\ []((stopCall = "counting" /\ ~is_running) => t_phase = "idle")

\* C6 (as claimed): once stop() has been called on a counting timer, the
\* completion notification is not invoked for that run.
C6_NoCompletionAfterStop ==
    [][stopCall = "counting" => doneCount' = doneCount]_vars

\* the fields, thread and notifications of the timer, and the callers' places
TimerCore ==
    <<lock, cpc, start_ret, TimerState>>

\* C7: pause() directly followed by resume(), with no step of the countdown
\* thread in between, leaves remaining, phase and the notifications as they
\* were before the pause(); pause() on a paused timer and resume() on an
\* unpaused timer change nothing.
C7_PauseResume ==
    /\ [](lastOp = "pause_resume"
            => <<t_remaining, t_phase, Notifications>> = prSnap)
    /\ [][(\/ lastOp' = "pause" /\ t_paused
           \/ lastOp' \in {"resume", "pause_resume"} /\ ~t_paused)
            => UNCHANGED TimerCore]_vars

C7_Witness ==
    /\ lastOp = "pause_resume"
    /\ is_running
    /\ threads[t].pc = "cd_paused"
    /\ t_remaining > 0

(* ------------------- properties of the session ------------------------- *)

\* the utterances that contain "quit" or "goodbye", in any letter case
QuitUtterances ==
    {u \in Utterances :
        \/ Contains(Lower(Chars[u]), K_quit)
        \/ Contains(Lower(Chars[u]), K_goodbye)}

\* the _speak calls made since _listen returned
SpokenSinceHeard == SubSeq(out.calls, heardAt + 1, Len(out.calls))

\* C8: once an utterance containing "quit" or "goodbye" (any case) has been
\* dispatched, the loop has ended, exactly one _speak call, the farewell, was
\* made for it, whatever the timer and muted are, and the loop does not sense,
\* prompt, listen or dispatch again.
C8_QuitEndsLoop ==
    (user \in QuitUtterances /\ s_pc # "dispatch") =>
        /\ s_pc \in {"cleanup", "done"}
        /\ SpokenSinceHeard = <<[text |-> "Goodbye.", muted |-> muted]>>

C8_Witness ==
    /\ s_pc = "done"
    /\ user = "Goodbye now"
    /\ muted
    /\ timer_deadline # 0

\* the texts of the _speak calls that found muted false
UnmutedTexts(calls) ==
    LET unmutedCalls == SelectSeq(calls, LAMBDA c : ~c.muted) IN
    [j \in 1..Len(unmutedCalls) |-> unmutedCalls[j].text]

\* C9: every _speak call writes one console line; say() is invoked for it
\* exactly when muted is false at that moment (and say() passes it to the
\* speech engine when one was imported); muted is true exactly from a mute
\* utterance to the next unmute utterance, so no audible output is invoked in
\* between and it is invoked again afterwards.
C9_SpeakLogsAlwaysAudibleIffUnmuted ==
    /\ Len(out.console) = Len(out.calls)
    /\ \A j \in 1..Len(out.calls) :
          out.console[j] = <<IF out.calls[j].muted THEN "[TTS muted]" ELSE "[TTS]",
                             out.calls[j].text>>
    /\ out.said = UnmutedTexts(out.calls)
    /\ out.played = IF tts THEN out.said ELSE <<>>
    /\ muted = muteCmd

C9_Witness ==
    /\ muteCmd
    /\ tts
    /\ s_pc = "listen"
    /\ Len(out.calls) = 1
    /\ out.console[1][1] = "[TTS muted]"
    /\ out.said = <<>>

\* C10: after the dispatch of an utterance equal to "mute" (trimmed, any
\* case) muted is true and no _speak call was made for it; after the dispatch
\* of "unmute" muted is false and the one _speak call made for it, the
\* confirmation, found muted false and was passed to say().
C10_MuteSilentUnmuteAudible ==
    (s_pc = "sense" /\ user # "") =>
        /\ user \in MuteUtterances =>
              /\ muted
              /\ SpokenSinceHeard = <<>>
        /\ user \in UnmuteUtterances =>
              /\ ~muted
              /\ SpokenSinceHeard =
                    <<[text |-> "Okay, I can speak again.", muted |-> FALSE]>>
              /\ out.said # <<>>
              /\ out.said[Len(out.said)] = "Okay, I can speak again."

C10_Witness ==
    /\ s_pc = "sense"
    /\ user = "unmute"
    /\ out.calls[1].muted
    /\ out.said = <<"Okay, I can speak again.">>
    /\ out.played = out.said

\* the utterances that start with "start timer", in any letter case
StartTimerUtterances ==
    {u \in Utterances : StartsWith(Lower(Chars[u]), K_start_timer)}

\* the whole number the decimal digits of an utterance give, 25 for an
\* utterance without digits
ExpectedSeconds ==
    ("start timer 1" :> 1) @@ ("start timer 10" :> 10) @@ ("Start timer" :> 25)
 @@ ("start timer quit" :> 25)

\* a dispatch step of an utterance u, the timer not being set
StartTimerStep(u) ==
    /\ s_pc = "dispatch"
    /\ s_pc' # "dispatch"
    /\ user = u
    /\ timer_deadline = 0

\* the timer is set for n seconds, unpaused, and the confirmation names n
TimerSetFor(n) ==
    /\ timer_deadline' = now + n
    /\ timer_deadline' # 0
    /\ ~paused'
    /\ SpokenSinceHeard' =
          <<[text |-> "Timer set for " \o ToString(n) \o " seconds.",
             muted |-> muted]>>

\* C11 as stated: with no timer set, the dispatch of any utterance that starts
\* with "start timer" sets a running, unpaused timer for the number of seconds
\* its digits give (25 without digits) and speaks a confirmation naming it.
C11_StartTimerAlwaysSets ==
    [][\A u \in StartTimerUtterances :
         StartTimerStep(u) =>
            /\ timer_deadline' # 0
            /\ ~paused'
            /\ u \in DOMAIN ExpectedSeconds => TimerSetFor(ExpectedSeconds[u])
      ]_vars

\* C11, amended: with no timer set, the dispatch of an utterance that starts
\* with "start timer" and holds neither "quit" nor "goodbye" sets a running,
\* unpaused timer for the number its digits give (25 without digits; 10 for
\* "start timer 10") and confirms it, when the digits are a decimal number;
\* otherwise it says "Couldn't set the timer." and sets no timer.
C11_StartTimerSets ==
    [][\A u \in StartTimerUtterances \ QuitUtterances :
         StartTimerStep(u) =>
            IF u \in DOMAIN ExpectedSeconds
            THEN TimerSetFor(ExpectedSeconds[u])
            ELSE /\ timer_deadline' = 0
                 /\ UNCHANGED paused
                 /\ SpokenSinceHeard' =
                       <<[text |-> "Couldn't set the timer.", muted |-> muted]>>
      ]_vars

C11_Witness ==
    /\ s_pc = "sense"
    /\ iter = 1
    /\ user = "start timer 10"
    /\ timer_deadline = timerSet.at + 10
    /\ ~paused
    /\ out.said = <<"Say something! (Speak clearly for ~5 seconds...)",
                    "Timer set for 10 seconds.">>

\* the number of "Timer done." announcements among the _speak calls of lg
DoneCalls(lg) == Len(SelectSeq(lg.calls, LAMBDA c : c.text = "Timer done."))

\* the duration of the timer last set has elapsed
TimerElapsed ==
    /\ timerSet.by # ""
    /\ now >= timerSet.at + ExpectedSeconds[timerSet.by]

\* C12: a timer set by "start timer" is announced at most once, and never
\* before its duration has elapsed; the timer check of an iteration makes the
\* announcement exactly when the timer is set, unpaused, elapsed and not yet
\* announced; no other step of the loop makes it.
C12_TimerDoneOnce ==
    /\ [](/\ timerSet.announced <= 1
          /\ timerSet.announced = 1 => TimerElapsed)
    /\ [][IF s_pc = "timer" /\ s_pc' = "prompt"
          THEN LET due == TimerElapsed /\ ~paused /\ timerSet.announced = 0
                   k == IF due THEN 1 ELSE 0 IN
               /\ DoneCalls(out') = DoneCalls(out) + k
               /\ timerSet'.announced = timerSet.announced + k
               /\ timerSet'.by = timerSet.by
          ELSE /\ DoneCalls(out') =
                     IF s_pc = "sense" /\ s_pc' # "sense" THEN 0 ELSE DoneCalls(out)
               /\ timerSet'.announced \in {0, timerSet.announced}
      ]_vars

C12_Witness ==
    /\ s_pc = "prompt"
    /\ iter = 2
    /\ timerSet = [at |-> 1, by |-> "start timer 1", announced |-> 1]
    /\ ~paused
    /\ DoneCalls(out) = 0

\* the operator pressed Q in the preview window: the farewell was spoken
\* before anything was heard in the iteration
QuitByKey ==
    /\ user = ""
    /\ out.calls = <<[text |-> "Goodbye.", muted |-> muted]>>

\* C13: the run loop is left only after a quit/goodbye utterance or the
\* operator's key press; no exception raised by the camera read, the mood
\* classification, the listen call or the reply generator ends it.
C13_OnlyQuitEndsSession ==
    s_pc \in {"cleanup", "done", "crashed"} =>
        /\ s_pc # "crashed"
        /\ user \in QuitUtterances \/ QuitByKey

\* the last entry of a sequence, "" for the empty one
LastOf(q) == IF q = <<>> THEN "" ELSE q[Len(q)]

\* C14: the dispatch of the conversational utterance "what time is it"
\* appends the utterance and a non-empty reply to the history and speaks
\* that reply, whatever the reply collaborator does; without a collaborator
\* the reply is the offline time answer.
C14_ReplyNeverEmpty ==
    [][(s_pc = "dispatch" /\ s_pc' # "dispatch" /\ user = "what time is it") =>
          /\ s_pc' = "sense"
          /\ Len(ctx') >= 2
          /\ ctx'[Len(ctx') - 1] = user
          /\ LastOf(ctx') # ""
          /\ SpokenSinceHeard' = <<[text |-> LastOf(ctx'), muted |-> muted]>>
          /\ ~ai => LastOf(ctx') = "It's 00:00."
      ]_vars

\* the last n entries of q, in order
LastN(q, n) == IF Len(q) <= n THEN q ELSE SubSeq(q, Len(q) - n + 1, Len(q))

\* the utterances handled by a command rule: quit, mute, unmute, the timer
\* commands, status
CommandUtterances == Utterances \ {"what time is it"}

\* C15: self.ctx holds at most 12 entries, the most recent 12 of all the
\* entries ever appended, in order; a step appends only in the dispatch of a
\* conversational utterance, the utterance first and then one reply; the
\* dispatch of a command utterance leaves the history as it was.
C15_HistoryBounded ==
    /\ [](/\ Len(ctx) <= 12
          /\ ctx = LastN(appended, 12))
    /\ [][/\ appended' # appended =>
              /\ s_pc = "dispatch"
              /\ user \notin CommandUtterances
              /\ Len(appended') = Len(appended) + 2
              /\ SubSeq(appended', 1, Len(appended)) = appended
              /\ appended'[Len(appended) + 1] = user
              /\ SpokenSinceHeard' =
                    <<[text |-> LastOf(appended'), muted |-> muted]>>
          /\ (s_pc = "dispatch" /\ user \in CommandUtterances) => UNCHANGED ctx
          /\ ctx' # ctx => appended' # appended
      ]_vars

C15_Witness ==
    /\ Len(appended) = 14
    /\ Len(ctx) = 12
    /\ ctx[1] = appended[3]
    /\ ctx[12] = appended[14]
    /\ appended[1] = "what time is it"
    /\ appended[2] # ctx[2]

\* the earliest rule, in the order quit/goodbye, mute, unmute, start timer,
\* pause timer, resume timer, status, reply, that each utterance matches;
\* "start timer quit" also matches start timer, "pause timer status" also
\* matches status
ExpectedRule ==
    ("quit" :> "quit") @@ ("Goodbye now" :> "quit")
 @@ ("start timer quit" :> "quit")
 @@ (" Mute " :> "mute") @@ ("unmute" :> "unmute")
 @@ ("start timer 1" :> "start timer") @@ ("start timer 10" :> "start timer")
 @@ ("Start timer" :> "start timer") @@ ("start timer ²" :> "start timer")
 @@ ("pause timer" :> "pause timer") @@ ("pause timer status" :> "pause timer")
 @@ ("resume timer" :> "resume timer")
 @@ ("status" :> "status")
 @@ ("what time is it" :> "reply")

\* the one _speak call made for the utterance says one of texts
SpokeOneOf(texts) ==
    /\ Len(SpokenSinceHeard') = 1
    /\ SpokenSinceHeard'[1].text \in texts

\* the effects of each rule, and of no other rule, in a dispatch step
RuleEffects(rule) ==
    IF rule = "quit"
    THEN /\ s_pc' = "cleanup"
         /\ SpokeOneOf({"Goodbye."})
         /\ UNCHANGED <<muted, ctx, timer_deadline, paused>>
    ELSE IF rule = "mute"
    THEN /\ s_pc' = "sense" /\ muted'
         /\ SpokenSinceHeard' = <<>>
         /\ UNCHANGED <<ctx, timer_deadline, paused>>
    ELSE IF rule = "unmute"
    THEN /\ s_pc' = "sense" /\ ~muted'
         /\ SpokeOneOf({"Okay, I can speak again."})
         /\ UNCHANGED <<ctx, timer_deadline, paused>>
    ELSE IF rule = "start timer"
    THEN /\ s_pc' = "sense"
         /\ SpokeOneOf({"Timer set for 1 seconds.", "Timer set for 10 seconds.",
                        "Timer set for 25 seconds.", "Couldn't set the timer."})
         /\ UNCHANGED <<muted, ctx>>
    ELSE IF rule = "pause timer"
    THEN /\ s_pc' = "sense"
         /\ SpokeOneOf({"Timer paused.", "No running timer."})
         /\ UNCHANGED <<muted, ctx, timer_deadline>>
    ELSE IF rule = "resume timer"
    THEN /\ s_pc' = "sense"
         /\ SpokeOneOf({"Timer resumed.", "No paused timer."})
         /\ UNCHANGED <<muted, ctx, timer_deadline>>
    ELSE IF rule = "status"
    THEN /\ s_pc' = "sense"
         /\ SpokeOneOf({"I'm running fine.", "I think you're happy."})
         /\ UNCHANGED <<muted, ctx, timer_deadline, paused>>
    ELSE /\ \/ s_pc' = "crashed" /\ SpokenSinceHeard' = <<>> /\ UNCHANGED ctx
            \/ /\ s_pc' = "sense"
               /\ appended' # appended
               /\ SpokeOneOf({LastOf(appended')})
         /\ UNCHANGED <<muted, timer_deadline, paused>>

\* C16: the dispatch of an utterance has the effects of the earliest rule it
\* matches and of that rule only, also for an utterance that matches several
\* rules.
C16_FirstMatchWins ==
    [][(s_pc = "dispatch" /\ s_pc' # "dispatch") => RuleEffects(ExpectedRule[user])
      ]_vars

C16_Witness ==
    /\ s_pc = "sense"
    /\ user = "pause timer status"
    /\ paused
    /\ moods # <<>>
    /\ LastOf(out.said) = "Timer paused."

\* the utterances handled by the pause timer rule and by the resume timer rule
PauseUtterances == {"pause timer", "pause timer status"}
ResumeUtterances == {"resume timer"}

\* the one _speak call made for the utterance
SpokeOnly(text) == SpokenSinceHeard' = <<[text |-> text, muted |-> muted]>>

\* C17: the dispatch of a "pause timer" utterance sets paused and says
\* "Timer paused." when a timer is set, and otherwise says "No running timer."
\* and leaves the timer as it was; the dispatch of a "resume timer" utterance
\* clears paused and says "Timer resumed." when a timer is set and paused, and
\* otherwise says "No paused timer." and leaves the timer as it was.
C17_PauseResumeCommands ==
    [][(s_pc = "dispatch" /\ s_pc' # "dispatch") =>
          /\ user \in PauseUtterances =>
                IF timer_deadline # 0
                THEN paused' /\ SpokeOnly("Timer paused.") /\ UNCHANGED timer_deadline
                ELSE SpokeOnly("No running timer.")
                     /\ UNCHANGED <<timer_deadline, paused>>
          /\ user \in ResumeUtterances =>
                IF timer_deadline # 0 /\ paused
                THEN ~paused' /\ SpokeOnly("Timer resumed.") /\ UNCHANGED timer_deadline
                ELSE SpokeOnly("No paused timer.")
                     /\ UNCHANGED <<timer_deadline, paused>>
      ]_vars

C17_Witness ==
    /\ s_pc = "sense"
    /\ user = "resume timer"
    /\ timer_deadline # 0
    /\ ~paused
    /\ LastOf(out.said) = "Timer resumed."

\* C18: once run has been left, by a quit/goodbye utterance, by the
\* operator's key press or by an exception that unwound out of the loop, the
\* camera handle is no longer held open.
C18_CameraReleasedOnExit ==
    s_pc \in {"done", "crashed"} => cap # "open"

(* ------------------- properties of the phrases ------------------------- *)

\* C19: every call of get_phrase, for each combination of present and absent
\* emotion, people, motion, time of day and name, returns a non-empty line,
\* the one it remembered; for a context without a name, and so for the empty
\* context, the line addresses "there".
C19_GetPhraseTotal ==
    ph_calls > 0 =>
        /\ Len(ph_last.line) > 0
        /\ RECENT # <<>>
        /\ RECENT[Len(RECENT)] = ph_last.line
        /\ ph_last.ctx.name = "" => ContainsStr(ph_last.line, ", there.")
        /\ ph_last.ctx.name # "" => ContainsStr(ph_last.line, ph_last.ctx.name)

C19_Witness ==
    /\ ph_calls = 2
    /\ ph_last.ctx = EmptyCtx
    /\ ph_last.retried
    /\ ph_last.line = "Let's focus, there. Ready when you are. Want a 12-minute focus block?"

\* the phrases of a memory
Range(mem) == {mem[j] : j \in 1..Len(mem)}

\* draws that reach every entry of every fragment library
FullPicks == 1..Len(ACTION_FRAGMENTS)

\* a call of get_phrase
PhraseCall == ph_calls' = ph_calls + 1

\* C20 as stated: a call returns a phrase that is among the 24 phrases
\* returned before it only when every line that can be assembled for its
\* context is among them.
C20_NoRepeatInWindow ==
    [][(PhraseCall /\ ph_last'.line \in Range(RECENT)) =>
          \A d \in FirstDraws(FullPicks) :
             FirstLine(ph_last'.ctx, d) \in Range(RECENT)
      ]_vars

\* C20, amended: _RECENT holds the phrases returned, at most 24, the latest
\* last; a call returns a phrase that is among them only when the line it
\* assembled first was among them and the line it regenerated, once, is
\* among them too; a line assembled first that is not among them is returned
\* as it is.
C20_RepeatOnlyAfterRetry ==
    /\ [](/\ Len(RECENT) <= 24
          /\ Len(RECENT) = ph_calls
          /\ ph_calls > 0 => RECENT[Len(RECENT)] = ph_last.line)
    /\ [][PhraseCall =>
            /\ ph_last'.retried <=> ph_last'.first \in Range(RECENT)
            /\ ~ph_last'.retried => ph_last'.line = ph_last'.first
            /\ ph_last'.line \in Range(RECENT) => ph_last'.retried
            /\ RECENT' = Append(RECENT, ph_last'.line)
      ]_vars

C20_Witness ==
    /\ ph_calls = 2
    /\ ph_last.retried
    /\ ph_last.line = RECENT[1]
    /\ ph_last.first = RECENT[1]

\* C21: _RECENT never holds more than 24 entries and is the last 24 of the
\* lines returned, in call order; a call of get_phrase appends one entry, the
\* line it returns, and drops the oldest entry when 24 are held; no other
\* step changes _RECENT.
C21_RecentIsLast24Returned ==
    /\ [](/\ Len(RECENT) <= 24
          /\ RECENT = LastN(returned, 24)
          /\ Len(returned) = ph_calls)
    /\ [][IF PhraseCall
          THEN /\ returned' = Append(returned, ph_last'.line)
               /\ RECENT' = IF Len(RECENT) < 24
                             THEN Append(RECENT, ph_last'.line)
                             ELSE Append(Tail(RECENT), ph_last'.line)
          ELSE UNCHANGED <<RECENT, returned>>
      ]_vars

C21_Witness ==
    /\ ph_calls = 26
    /\ Len(RECENT) = 24
    /\ RECENT[1] = returned[3]
    /\ RECENT[1] # returned[1]
    /\ ph_last.retried
    /\ ph_last.line # ph_last.first
    /\ RECENT[24] = ph_last.line

(* ------------------- the timer, continued ----------------------------- *)

\* the step "self._remaining = seconds" with which a phase begins
PhaseBegins ==
    \E i \in ThreadIds : threads[i].pc = "cd_setrem" /\ threads'[i].pc = "cd_while"

\* C22 (as claimed): remaining is never negative; within a phase no step
\* raises it; and a step that finds the paused flag true and leaves it true
\* does not change remaining and issues no tick notification, however
\* pause() and resume() interleave with the countdown thread.
C22_RemainingFrozenWhilePaused ==
    /\ [](t_remaining >= 0)
    /\ [][~PhaseBegins =>
            /\ t_remaining' <= t_remaining
            /\ (t_paused /\ t_paused') =>
                  /\ t_remaining' = t_remaining
                  /\ Len(tickLog') <= Len(tickLog)
      ]_vars

(* ------------------- the session, continued ---------------------------- *)

\* the step announces "Timer done."
Announces == timerSet'.announced > timerSet.announced

\* C23 (as claimed): when "pause timer" paused the timer with r seconds left
\* and "resume timer" resumed it later, "Timer done." is not announced before
\* r seconds have passed since the resume, however long the pause lasted.
C23_PauseFreezesRemaining ==
    [][(Announces /\ frozen.since # 0) => now >= frozen.since + frozen.left]_vars

\* the utterances handled by the start timer rule whose number parses
SetTimerUtterances == {u \in Utterances : RuleOf[u] = "start timer"} \cap DOMAIN ExpectedSeconds

\* C24 (as claimed): the dispatch of a "start timer N" utterance while a timer
\* is set and not paused leaves that timer's deadline, and so its remaining
\* time and its moment of completion, as they were.
C24_StartWhileRunningKeepsTimer ==
    [][(/\ s_pc = "dispatch" /\ s_pc' # "dispatch"
        /\ user \in SetTimerUtterances
        /\ timer_deadline # 0 /\ ~paused)
          => UNCHANGED timer_deadline
      ]_vars

\* the seconds of the phase last notified, in the run of the thread self._t
PhaseSeconds ==
    IF phaseLog[Len(phaseLog)] = "work" THEN lastArgs.work_s ELSE lastArgs.break_s

\* the tick notifications of a phase of s seconds: s-1, s-2, ..., 0
ExpectedTicks(s, phase) == [j \in 1..s |-> <<s - j, phase>>]

\* the countdown of the phase last notified has run to its end
PhaseOver ==
    \/ threads[t].pc \in {"run_for", "on_done", "exit", "dead"}
    \/ threads[t].pc \in {"cd_phase", "cd_notify"}

\* C25: in a run that is not stopped, the ticks issued since a phase
\* notification carry s-1, s-2, ... in that order and the name of that phase,
\* s being the seconds of the phase; all s of them, down to 0, have been
\* issued when the countdown of the phase is over, and so before the next
\* phase notification and before the completion notification; no tick
\* precedes the first phase notification.
C25_TicksCountDown ==
    /\ [](RunNotStopped =>
            IF phaseLog = <<>> THEN tickLog = <<>>
            ELSE LET want == ExpectedTicks(PhaseSeconds, phaseLog[Len(phaseLog)]) IN
                 /\ IsPrefix(tickLog, want)
                 /\ PhaseOver => tickLog = want)
    /\ [][(/\ RunNotStopped /\ phaseLog # <<>>
           /\ (Len(phaseLog') > Len(phaseLog) \/ doneCount' > doneCount))
            => tickLog = ExpectedTicks(PhaseSeconds, phaseLog[Len(phaseLog)])
      ]_vars

C25_Witness ==
    /\ RunNotStopped
    /\ lastArgs.work_s = 2
    /\ phaseLog = <<"work", "break", "work">>
    /\ tickLog = <<<<1, "work">>, <<0, "work">>>>
    /\ doneCount = 1
    /\ t_paused

\* a step of the countdown thread
ThreadNext ==
    \E i \in ThreadIds :
        \/ RunFor(i) \/ CdPhase(i) \/ CdNotify(i) \/ CdSetRem(i) \/ CdWhile(i)
        \/ CdStop(i) \/ CdPaused(i) \/ CdDec(i) \/ CdTick(i) \/ CdSleep(i)
        \/ OnDone(i) \/ ThreadExit(i)

\* start() called for the longest run: the most seconds and the most cycles
LongArgs == [work_s : {MaxWorkSecs}, break_s : {MaxBreakSecs}, cycles : {MaxCycles}]

\* the callers' steps, every start() being given the longest run
CallerNext ==
    \/ \E k \in Callers : StartAcquire(k)
    \/ \E k \in Callers : StartCheck(k)
    \/ \E k \in Callers : StartClearStop(k)
    \/ \E k \in Callers : StartClearPaused(k)
    \/ \E k \in Callers : \E a \in LongArgs : StartSpawn(k, a)
    \/ \E k \in Callers : pause(k)
    \/ \E k \in Callers : resume(k)
    \/ \E k \in Callers : stop(k)

FairNext == CallerNext \/ ThreadNext

\* the timer with a scheduler that does not starve the countdown thread:
\* a thread that can take a step takes it in the end; the callers call when
\* they like
SpecTimerFair == InitTimer /\ [][FairNext]_vars /\ WF_vars(ThreadNext)

\* C26: once stop() has been called while the countdown thread is alive,
\* paused or not, the thread ends and running turns false; a start() whose
\* running check then finds no thread alive goes on, returns True and leaves
\* a new countdown thread running with the arguments it was given.
C26_StopEndsThreadThenRestart ==
    /\ (t_stop /\ is_running) ~> ~is_running
    /\ [][\A k \in Callers :
            /\ (cpc[k] = "check" /\ ~is_running /\ cpc'[k] # "check")
                  => cpc'[k] = "clear_stop"
            /\ (cpc[k] = "spawn" /\ cpc'[k] = "idle") =>
                  /\ start_ret' = "True"
                  /\ is_running'
                  /\ t' # t
                  /\ threads'[t'].pc = "run_for"
                  /\ threads'[t'].work_s = lastArgs'.work_s
      ]_vars

\* a run was stopped while paused in mid-count, its thread has ended, and
\* a later start() has returned True with the new thread alive
C26_Witness ==
    /\ t = 2
    /\ threads[1].pc = "dead"
    /\ IsAlive(2)
    /\ start_ret = "True"
    /\ t_phase = "idle"
    /\ t_remaining > 0
    /\ \A k \in Callers : cpc[k] = "idle"

\* what an iteration may change before it listens: the mood and the mood
\* memory, and the timer's deadline at the completion check; the rest of the
\* session
SessionRest == <<ctx, muted, timer_deadline, paused, moods, mood, cap, appended>>

\* C27: the step in which _listen returns nothing (a timeout or a failure of
\* the recogniser) goes on to the next iteration and leaves the history,
\* muted, the timer's deadline and paused flag, and the mood memory as they
\* were before the listen, and nothing is spoken for it.
C27_SilenceChangesNothing ==
    [][(s_pc = "listen" /\ s_pc' # "listen" /\ user' = "") =>
          /\ s_pc' = "sense"
          /\ iter' = iter + 1
          /\ UNCHANGED SessionRest
          /\ out'.calls = out.calls
      ]_vars

\* nothing was heard in the iteration just ended, in which a mood was
\* recorded, with a timer set and paused
C27_Witness ==
    /\ s_pc = "sense"
    /\ user = ""
    /\ heardAt = 1
    /\ Len(out.calls) = 1
    /\ timer_deadline # 0
    /\ paused
    /\ mood # ""
    /\ moods # <<>>

\* the utterances handled by the start timer rule
StartRuleUtterances == {u \in Utterances : RuleOf[u] = "start timer"}

\* a step that handles the utterance just heard
Handles == s_pc = "dispatch" /\ s_pc' # "dispatch"

\* paused is true only with a deadline set; it turns true only in the
\* handling of a pause timer utterance that finds a deadline; the deadline is
\* cleared only by the completion announcement, which finds paused false
PausedNeedsDeadline ==
    /\ [](paused => timer_deadline # 0)
    /\ [][/\ (~paused /\ paused') =>
               (Handles /\ RuleOf[user] = "pause timer" /\ timer_deadline # 0)
          /\ (timer_deadline # 0 /\ timer_deadline' = 0) =>
               (s_pc = "timer" /\ ~paused /\ Announces)
      ]_vars

\* C29 as stated: paused is true only while a deadline is set, "pause timer"
\* sets it only with a deadline present, completion clears the deadline only
\* when unpaused, and the handling of a "start timer" utterance clears the
\* flag.
C29_StartAlwaysClearsPaused ==
    /\ PausedNeedsDeadline
    /\ [][(Handles /\ user \in StartRuleUtterances) => ~paused']_vars

\* C29, amended: paused is true only while a deadline is set, "pause timer"
\* sets it only with a deadline present, completion clears the deadline only
\* when unpaused, and the handling of a "start timer" utterance whose digits
\* are a decimal number (or that has none) sets a deadline and clears the
\* flag, while one whose digits are not a number leaves both as they were.
C29_PausedOnlyWithDeadline ==
    /\ PausedNeedsDeadline
    /\ [][(Handles /\ user \in StartRuleUtterances) =>
            IF user \in SetTimerUtterances
            THEN ~paused' /\ timer_deadline' # 0
            ELSE UNCHANGED <<paused, timer_deadline>>
      ]_vars

\* a paused timer after the handling of a "start timer" utterance
C29_Witness ==
    /\ s_pc = "sense"
    /\ user \in StartRuleUtterances
    /\ paused
    /\ timer_deadline # 0
    /\ frozen.left > 0

\* the utterances handled by the reply rule
ReplyUtterances == {u \in Utterances : RuleOf[u] = "reply"}

\* the entries of q at the odd places 1, 3, ... hold an utterance handled by
\* the reply rule, each followed by one more entry
PairsIn(q) ==
    /\ Len(q) % 2 = 0
    /\ \A j \in 1..Len(q) : j % 2 = 1 => q[j] \in ReplyUtterances

\* C30: self.ctx always has even length and holds (utterance, reply) pairs
\* in order, the pairs most lately appended: the entry at each even position
\* (counted from 0) is an utterance handled by the reply rule and the next
\* entry is the reply that was appended with it and spoken for it; dropping
\* the oldest entries at capacity 12 drops whole pairs.
C30_HistoryIsPairs ==
    /\ [](/\ PairsIn(ctx)
          /\ PairsIn(appended)
          /\ ctx = LastN(appended, 12))
    /\ [][appended' # appended =>
            /\ Handles
            /\ appended' = appended \o <<user, LastOf(appended')>>
            /\ SpokenSinceHeard' = <<[text |-> LastOf(appended'), muted |-> muted]>>
            /\ Len(ctx) = 12 => ctx' = SubSeq(ctx, 3, 12) \o <<user, LastOf(appended')>>
      ]_vars

\* seven pairs were appended, the first was dropped whole, and the replies
\* kept differ
C30_Witness ==
    /\ Len(appended) = 14
    /\ Len(ctx) = 12
    /\ ctx = SubSeq(appended, 3, 14)
    /\ ctx[1] = "what time is it"
    /\ ctx[2] = "Sure."
    /\ ctx[12] = "It's 00:00."

(* ------------------- the phrases, continued ---------------------------- *)

\* the numbers of minutes a line suggests: the n of each "n-minute" in it
DurationsIn(line) ==
    {n \in 1..60 : ContainsStr(line, " " \o ToString(n) \o "-minute")}

\* C28 (as claimed): every number of minutes suggested in a line returned by
\* get_phrase is one of 10, 15, 20 and 25, whether the line was assembled
\* first or regenerated.
C28_DurationsFromCandidates ==
    ph_calls > 0 => DurationsIn(ph_last.line) \subseteq {10, 15, 20, 25}

\* the affect pools of _emotion_bucket
AffectPools ==
    {emotion_bucket(em) : em \in {"happy", "surprised", "angry", "sad", "neutral"}}

\* C31: _RECENT never holds a bare affect fragment, whichever fragments occur
\* inside the lines it holds, so that for every affect pool and every draw
\* the _choose_nonrepeat of the regeneration leaves no candidate out: it
\* picks what random.choice picks from the whole pool.
C31_RetryDrawsFromWholePool ==
    \A pool \in AffectPools :
        /\ \A j \in 1..Len(pool) : pool[j] \notin Range(RECENT)
        /\ SelectSeq(pool, LAMBDA c : novel(c, RECENT)) = pool
        /\ \A r \in FullPicks :
              choose_nonrepeat(pool, RECENT, r) = Choice(pool, r)

\* a regenerated line carries an affect fragment that the remembered line
\* before it carries too
C31_Witness ==
    /\ ph_calls = 2
    /\ ph_last.retried
    /\ \E pool \in AffectPools : \E j \in 1..Len(pool) :
          /\ ContainsStr(RECENT[1], pool[j] \o ".")
          /\ ContainsStr(ph_last.line, pool[j] \o ".")

(* -------------- the flags of the timer across runs --------------------- *)

\* start() creates and starts the thread: its step from "spawn"
ThreadBegins == \E k \in Callers : cpc[k] = "spawn" /\ cpc'[k] = "idle"

\* C32 as stated: a stop() or pause() call made while no countdown thread is
\* alive does not reach the next run: when start() creates the thread, which it does
\* with its lock held and having found no thread alive, the stop flag and the
\* paused flag are both clear.
C32_IdleCallsLeaveNextRunAlone ==
    [][ThreadBegins => (~t_stop' /\ ~t_paused')]_vars

\* a step of start() from the position from to the position to
StartStep(from, to) == \E k \in Callers : cpc[k] = from /\ cpc'[k] = to

\* _countdown returns False on the stop flag
EndedByStop ==
    \E i \in ThreadIds : threads[i].pc = "cd_stop" /\ threads'[i].pc = "exit"

\* C32, amended: start() clears the stop flag and then the paused flag,
\* whatever stop() and pause() calls came before, and creates the thread
\* after that; from then on the stop flag is set by a stop() call only and
\* the paused flag by a pause() call only. A run for which no stop() was
\* called since the stop flag was cleared begins with the flag clear and is
\* not ended by it.
C32_StartClearsEarlierCalls ==
    [][/\ StartStep("clear_stop", "clear_paused") => ~t_stop'
       /\ StartStep("clear_paused", "spawn") => ~t_paused'
       /\ (~t_stop /\ t_stop') =>
             (stopCall' # "none" /\ UNCHANGED <<cpc, threads, t_paused>>)
       /\ (~t_paused /\ t_paused') =>
             (lastOp' = "pause" /\ UNCHANGED <<cpc, threads, t_stop>>)
       /\ (ThreadBegins /\ stopCall = "none") => ~t_stop'
       /\ EndedByStop => stopCall # "none"
      ]_vars

\* stop() and pause() were called on a timer that had no thread yet; the
\* start() that followed has created the thread, which is about to take its
\* first step with both flags clear
C32_Witness ==
    /\ earlyCalls = {"stop", "pause"}
    /\ t = 1
    /\ threads[1].pc = "run_for"
    /\ start_ret = "True"
    /\ ~t_stop
    /\ ~t_paused
    /\ stopCall = "none"

====
